---- MODULE Spec2Model ----
(***************************************************************************)
(* Todo GraphQL API: the request context (bearer token verification), the  *)
(* resolvers (me, todos, login, addTodo, toggleTodo, deleteTodo) and the   *)
(* in-memory todo list they share.                                         *)
(*                                                                         *)
(* Time is counted in days.  A uuid is opaque and only ever compared for   *)
(* equality, so the k-th uuid generated by the process is named k.         *)
(***************************************************************************)
EXTENDS Integers, Sequences, FiniteSets, TLC

\* ---------------------------------------------------------------- bounds
MaxIds == 2       \* uuids generated in a run (the seeded todo takes the first)

\* ------------------------------------------------------- program constants
ExpiresInDays == 7                  \* expiresIn: "7d"

JWT_SECRET == "devsecret-change-me"
OtherSecret == "attacker-secret"

users ==
  << [username |-> "user",  password |-> "password", role |-> "USER"],
     [username |-> "admin", password |-> "admin",    role |-> "ADMIN"] >>

\* ------------------------------------------------------------ input sets
Usernames == {"user", "admin", "User"}
Passwords == {"password", "admin", "Admin"}
Texts == {"x"}
Days == {0, 1, 8}                   \* the days on which the clock is read
ArgIds == 0..MaxIds                 \* 0 is an id no todo ever has

Null == << >>                       \* null / undefined

\* ------------------------------------------------------------------ state
VARIABLES
  todos,      \* the todos array, index 1 is the front
  uuids,      \* how many uuids have been generated
  now,        \* the clock, in days
  held,       \* the token a client keeps from a login and presents again (a
              \* set of at most one), with the day of its issue and the
              \* registry user it was issued to
  call        \* the last request: operation, header, context, arguments,
              \* the todos array before it ran, and its result

vars == << todos, uuids, now, held, call >>

\* -------------------------------------------------------------- JSON Web Token
\* An HMAC is modelled as an ideal MAC: it names the key and the signed payload.
Hmac(payload, key) == [key |-> key, over |-> payload]

NoPayload == [username |-> "", role |-> "", iat |-> 0, exp |-> 0]

\* jwt.sign(claims, secret, {expiresIn}) at clock t
jwtSign(claims, secret, expiresIn, t) ==
  LET payload == [username |-> claims.username, role |-> claims.role,
                  iat |-> t, exp |-> t + expiresIn]
  IN [wellFormed |-> TRUE, payload |-> payload, sig |-> Hmac(payload, secret)]

\* jwt.verify(token, secret) at clock t: <<payload>> or Null when it throws
jwtVerify(token, secret, t) ==
  IF ~token.wellFormed THEN Null
  ELSE IF token.sig # Hmac(token.payload, secret) THEN Null
  ELSE IF t >= token.payload.exp THEN Null
  ELSE << token.payload >>

\* createToken that signs the role USER whatever the user's role
createToken_RoleUser(user, t) ==
  jwtSign([username |-> user.username, role |-> "USER"], JWT_SECRET,
          ExpiresInDays, t)

\* createToken with expiresIn: "1d"
createToken_OneDay(user, t) ==
  jwtSign([username |-> user.username, role |-> user.role], JWT_SECRET, 1, t)

createToken(user, t) ==
  jwtSign([username |-> user.username, role |-> user.role], JWT_SECRET,
          ExpiresInDays, t)

\* ---------------------------------------------------------------- context
\* A header is absent (Null) or <<its first 7 characters, auth.slice(7)>>.
StartsWithBearer(auth) == auth # Null /\ auth[1] = "Bearer "

\* context that decodes the token without verifying it (jwt.decode)
context_DecodeOnly(auth, t) ==
  IF StartsWithBearer(auth) /\ auth[2].wellFormed
  THEN [user |-> << auth[2].payload >>]
  ELSE [user |-> Null]

context(auth, t) ==
  IF StartsWithBearer(auth)
  THEN LET decoded == jwtVerify(auth[2], JWT_SECRET, t)
       IN IF decoded # Null THEN [user |-> decoded] ELSE [user |-> Null]
  ELSE [user |-> Null]

\* ----------------------------------------------------------------- guards
OK == "ok"

authGuard(ctx) == IF ctx.user = Null THEN "Not authenticated" ELSE OK

\* adminGuard without the role check
adminGuard_AuthOnly(ctx) == authGuard(ctx)

\* adminGuard that tests the role before it tests for an identity
adminGuard_RoleFirst(ctx) ==
  IF ctx.user = Null \/ ctx.user[1].role # "ADMIN" THEN "Admin only"
  ELSE authGuard(ctx)

adminGuard(ctx) ==
  IF authGuard(ctx) # OK THEN authGuard(ctx)
  ELSE IF ctx.user[1].role # "ADMIN" THEN "Admin only"
  ELSE OK

\* ---------------------------------------------------------- array helpers
\* Array.prototype.findIndex by id: the first match, 0 when there is none
FindIndex(list, id) ==
  IF \E i \in 1..Len(list) : list[i].id = id
  THEN CHOOSE i \in 1..Len(list) :
         /\ list[i].id = id
         /\ \A j \in 1..(i - 1) : list[j].id # id
  ELSE 0

\* users.find(u => u.username === username)
FindUser_ByUsername(username, password) ==
  LET hit == { i \in 1..Len(users) : users[i].username = username }
  IN IF hit = {} THEN Null
     ELSE << users[CHOOSE i \in hit : \A j \in hit : i <= j] >>

\* users.find(u => u.username === username && u.password === password)
FindUser(username, password) ==
  LET hit == { i \in 1..Len(users) :
                 users[i].username = username /\ users[i].password = password }
  IN IF hit = {} THEN Null
     ELSE << users[CHOOSE i \in hit : \A j \in hit : i <= j] >>

\* todos.push(todo)
Unshift_Push(list, todo) == list \o << todo >>

\* todos.unshift(todo)
Unshift(list, todo) == << todo >> \o list

\* todos.splice(idx, 1)
Splice(list, idx) ==
  [i \in 1..(Len(list) - 1) |-> IF i < idx THEN list[i] ELSE list[i + 1]]

\* t.done = !t.done on the element at idx
SetDone_Flip(list, idx, done) ==
  [list EXCEPT ![idx] = [@ EXCEPT !.done = ~@]]

\* t.done = !!done on the element at idx
SetDone(list, idx, done) ==
  [list EXCEPT ![idx] = [@ EXCEPT !.done = done]]

\* --------------------------------------------------------------- results
Fail(msg) == [ok |-> FALSE, error |-> msg, data |-> Null]
Succeed(value) == [ok |-> TRUE, error |-> "", data |-> << value >>]

Call(op, auth, ctx, args, result) ==
  [op |-> op, auth |-> auth, ctx |-> ctx, args |-> args,
   before |-> todos, result |-> result]

NoArgs == [id |-> 0, done |-> FALSE, text |-> "", username |-> "", password |-> ""]

\* ---------------------------------------------------------------- headers
\* A token of a USER with its role claim rewritten to ADMIN, signature kept.
Tamper(token) ==
  [token EXCEPT !.payload = [@ EXCEPT !.role = "ADMIN"]]

Forged(t) ==
  jwtSign([username |-> "admin", role |-> "ADMIN"], OtherSecret, ExpiresInDays, t)

Malformed == [wellFormed |-> FALSE, payload |-> NoPayload,
              sig |-> Hmac(NoPayload, "")]

HeldTokens == { r.token : r \in held }

Headers ==
  { Null, << "Bearer ", Malformed >>, << "Bearer ", Forged(now) >> }
  \cup { << "Bearer ", tok >> : tok \in HeldTokens }
  \cup { << "bearer ", tok >> : tok \in HeldTokens }
  \cup { << "Bearer ", Tamper(tok) >> : tok \in HeldTokens }

\* login is sent by a client that presents no token
LoginHeaders == { Null }

\* ------------------------------------------------------------------- Init
SeedTodo ==
  [id |-> 1, text |-> "Try the demo", done |-> FALSE, createdAt |-> 0,
   createdBy |-> "system"]

Init ==
  /\ todos = << SeedTodo >>
  /\ uuids = 1
  /\ now = 0
  /\ held = {}
  /\ call = [op |-> "start", auth |-> Null, ctx |-> [user |-> Null],
             args |-> NoArgs, before |-> << SeedTodo >>,
             result |-> Succeed(TRUE)]

\* ---------------------------------------------------------------- actions
\* Query.me
Me(auth) ==
  LET ctx == context(auth, now)
  IN /\ call' = Call("me", auth, ctx, NoArgs, Succeed(ctx.user))
     /\ UNCHANGED << todos, uuids, now, held >>

\* Query.todos
Todos(auth) ==
  LET ctx == context(auth, now)
  IN /\ call' = Call("todos", auth, ctx, NoArgs, Succeed(todos))
     /\ UNCHANGED << todos, uuids, now, held >>

\* Mutation.login
Login(auth, username, password) ==
  LET ctx == context(auth, now)
      args == [NoArgs EXCEPT !.username = username, !.password = password]
      user == FindUser(username, password)
  IN IF user = Null
     THEN /\ call' = Call("login", auth, ctx, args, Fail("Invalid credentials"))
          /\ UNCHANGED << todos, uuids, now, held >>
     ELSE LET token == createToken(user[1], now)
              safeUser == [username |-> user[1].username, role |-> user[1].role]
          IN \* the client stores the new token over its old one, or drops it
             /\ held' \in { held,
                            { [token |-> token, at |-> now, user |-> user[1]] } }
             /\ call' = Call("login", auth, ctx, args,
                             Succeed([token |-> token, user |-> safeUser]))
             /\ UNCHANGED << todos, uuids, now >>

\* addTodo that takes the id from the length of the array
AddTodo_IdFromLength(auth, text) ==
  LET ctx == context(auth, now)
      args == [NoArgs EXCEPT !.text = text]
  IN IF authGuard(ctx) # OK
     THEN /\ call' = Call("addTodo", auth, ctx, args, Fail(authGuard(ctx)))
          /\ UNCHANGED << todos, uuids, now, held >>
     ELSE LET todo == [id |-> Len(todos), text |-> text, done |-> FALSE,
                       createdAt |-> now, createdBy |-> ctx.user[1].username]
          IN /\ uuids < MaxIds
             /\ uuids' = uuids + 1
             /\ todos' = Unshift(todos, todo)
             /\ call' = Call("addTodo", auth, ctx, args, Succeed(todo))
             /\ UNCHANGED << now, held >>

\* Mutation.addTodo
AddTodo(auth, text) ==
  LET ctx == context(auth, now)
      args == [NoArgs EXCEPT !.text = text]
  IN IF authGuard(ctx) # OK
     THEN /\ call' = Call("addTodo", auth, ctx, args, Fail(authGuard(ctx)))
          /\ UNCHANGED << todos, uuids, now, held >>
     ELSE LET todo == [id |-> uuids + 1, text |-> text, done |-> FALSE,
                       createdAt |-> now, createdBy |-> ctx.user[1].username]
          IN /\ uuids < MaxIds
             /\ uuids' = uuids + 1
             /\ todos' = Unshift(todos, todo)
             /\ call' = Call("addTodo", auth, ctx, args, Succeed(todo))
             /\ UNCHANGED << now, held >>

\* toggleTodo that writes the flag before it calls authGuard
ToggleTodo_WriteFirst(auth, id, done) ==
  LET ctx == context(auth, now)
      args == [NoArgs EXCEPT !.id = id, !.done = done]
      idx == FindIndex(todos, id)
      written == IF idx = 0 THEN todos ELSE SetDone(todos, idx, done)
  IN IF authGuard(ctx) # OK
     THEN /\ todos' = written
          /\ call' = Call("toggleTodo", auth, ctx, args, Fail(authGuard(ctx)))
          /\ UNCHANGED << uuids, now, held >>
     ELSE IF idx = 0
     THEN /\ call' = Call("toggleTodo", auth, ctx, args, Fail("Not found"))
          /\ UNCHANGED << todos, uuids, now, held >>
     ELSE /\ todos' = written
          /\ call' = Call("toggleTodo", auth, ctx, args, Succeed(written[idx]))
          /\ UNCHANGED << uuids, now, held >>

\* Mutation.toggleTodo
ToggleTodo(auth, id, done) ==
  LET ctx == context(auth, now)
      args == [NoArgs EXCEPT !.id = id, !.done = done]
      idx == FindIndex(todos, id)
  IN IF authGuard(ctx) # OK
     THEN /\ call' = Call("toggleTodo", auth, ctx, args, Fail(authGuard(ctx)))
          /\ UNCHANGED << todos, uuids, now, held >>
     ELSE IF idx = 0
     THEN /\ call' = Call("toggleTodo", auth, ctx, args, Fail("Not found"))
          /\ UNCHANGED << todos, uuids, now, held >>
     ELSE /\ todos' = SetDone(todos, idx, done)
          /\ call' = Call("toggleTodo", auth, ctx, args,
                          Succeed(SetDone(todos, idx, done)[idx]))
          /\ UNCHANGED << uuids, now, held >>

\* deleteTodo without the idx === -1 test: splice(-1, 1) drops the last element
DeleteTodo_NoNotFound(auth, id) ==
  LET ctx == context(auth, now)
      args == [NoArgs EXCEPT !.id = id]
      idx == FindIndex(todos, id)
  IN IF adminGuard(ctx) # OK
     THEN /\ call' = Call("deleteTodo", auth, ctx, args, Fail(adminGuard(ctx)))
          /\ UNCHANGED << todos, uuids, now, held >>
     ELSE /\ todos' = IF todos = << >> THEN todos
                      ELSE Splice(todos, IF idx = 0 THEN Len(todos) ELSE idx)
          /\ call' = Call("deleteTodo", auth, ctx, args, Succeed(TRUE))
          /\ UNCHANGED << uuids, now, held >>

\* deleteTodo that looks the id up before it calls adminGuard
DeleteTodo_LookupFirst(auth, id) ==
  LET ctx == context(auth, now)
      args == [NoArgs EXCEPT !.id = id]
      idx == FindIndex(todos, id)
  IN IF idx = 0
     THEN /\ call' = Call("deleteTodo", auth, ctx, args, Fail("Not found"))
          /\ UNCHANGED << todos, uuids, now, held >>
     ELSE IF adminGuard(ctx) # OK
     THEN /\ call' = Call("deleteTodo", auth, ctx, args, Fail(adminGuard(ctx)))
          /\ UNCHANGED << todos, uuids, now, held >>
     ELSE /\ todos' = Splice(todos, idx)
          /\ call' = Call("deleteTodo", auth, ctx, args, Succeed(TRUE))
          /\ UNCHANGED << uuids, now, held >>

\* Mutation.deleteTodo
DeleteTodo(auth, id) ==
  LET ctx == context(auth, now)
      args == [NoArgs EXCEPT !.id = id]
      idx == FindIndex(todos, id)
  IN IF adminGuard(ctx) # OK
     THEN /\ call' = Call("deleteTodo", auth, ctx, args, Fail(adminGuard(ctx)))
          /\ UNCHANGED << todos, uuids, now, held >>
     ELSE IF idx = 0
     THEN /\ call' = Call("deleteTodo", auth, ctx, args, Fail("Not found"))
          /\ UNCHANGED << todos, uuids, now, held >>
     ELSE /\ todos' = Splice(todos, idx)
          /\ call' = Call("deleteTodo", auth, ctx, args, Succeed(TRUE))
          /\ UNCHANGED << uuids, now, held >>

\* The clock advances between requests; no request is the last step then.
Tick ==
  /\ now' \in { d \in Days : d > now }
  /\ call' = Call("tick", Null, [user |-> Null], NoArgs, Succeed(TRUE))
  /\ UNCHANGED << todos, uuids, held >>

Next ==
  \/ \E auth \in Headers : Me(auth)
  \/ \E auth \in Headers : Todos(auth)
  \/ \E auth \in LoginHeaders, u \in Usernames, p \in Passwords :
       Login(auth, u, p)
  \/ \E auth \in Headers, text \in Texts : AddTodo(auth, text)
  \/ \E auth \in Headers, id \in ArgIds, done \in BOOLEAN :
       ToggleTodo(auth, id, done)
  \/ \E auth \in Headers, id \in ArgIds : DeleteTodo(auth, id)
  \/ Tick

Spec == Init /\ [][Next]_vars

\* ================================================================ properties
RequestOps == {"me", "todos", "login", "addTodo", "toggleTodo", "deleteTodo"}
GateErrors == {"Not authenticated", "Admin only"}

Ids(list) == { list[i].id : i \in 1..Len(list) }
Anonymous == call.ctx.user = Null
IsAdmin == call.ctx.user # Null /\ call.ctx.user[1].role = "ADMIN"
Failed(msg) == ~call.result.ok /\ call.result.error = msg
Without(list, id) == SelectSeq(list, LAMBDA t : t.id # id)

\* C1: a todo that was in the array before the last step and is not in it
\* afterwards was removed by a successful deleteTodo for its id whose context
\* carries a user with role ADMIN; no other call and no other caller removes one.
C1_RemovedOnlyByAdminDelete ==
  \A id \in Ids(call.before) \ Ids(todos) :
    /\ call.op = "deleteTodo"
    /\ call.args.id = id
    /\ IsAdmin
    /\ call.result.ok

C1_Witness ==
  /\ call.op = "deleteTodo"
  /\ IsAdmin
  /\ call.args.id \in Ids(call.before) \ Ids(todos)

\* C2: deleteTodo with no user in the context fails with "Not authenticated"
\* (never "Admin only"), with a user whose role is not ADMIN it fails with
\* "Admin only", and the gate lets it through exactly when a user is present
\* with role ADMIN.
C2_AdminGateOrder ==
  call.op = "deleteTodo" =>
    /\ Anonymous => Failed("Not authenticated")
    /\ (~Anonymous /\ ~IsAdmin) => Failed("Admin only")
    /\ IsAdmin <=> (call.result.ok \/ call.result.error \notin GateErrors)

C2_Witness ==
  /\ call.op = "deleteTodo"
  /\ Anonymous
  /\ call.args.id \in Ids(todos)
  /\ Failed("Not authenticated")

\* C3: addTodo or toggleTodo without a user, and deleteTodo without a user or
\* with a non-ADMIN user, fail at the gate and leave the todos array exactly
\* as it was: same todos, same fields, same order.
C3_GateFailureNoEffect ==
  LET gated == \/ call.op \in {"addTodo", "toggleTodo"} /\ Anonymous
               \/ call.op = "deleteTodo" /\ ~IsAdmin
  IN /\ gated => (~call.result.ok /\ call.result.error \in GateErrors)
     /\ (call.op \in RequestOps /\ ~call.result.ok
           /\ call.result.error \in GateErrors) => todos = call.before

C3_Witness ==
  /\ call.op = "toggleTodo"
  /\ Anonymous
  /\ \E i \in 1..Len(call.before) :
       call.before[i].id = call.args.id /\ call.before[i].done # call.args.done
  /\ Failed("Not authenticated")
  /\ todos = call.before

\* C4: login with a username and password that match a registry record
\* succeeds; the token it returns verifies, on every day before its expiry,
\* to the username and role of that record; the returned user has exactly the
\* fields username and role.
C4_LoginRoundTrip ==
  \A i \in 1..Len(users) :
    (/\ call.op = "login"
     /\ call.args.username = users[i].username
     /\ call.args.password = users[i].password)
    => /\ call.result.ok
       /\ LET payload == call.result.data[1]
          IN /\ DOMAIN payload.user = {"username", "role"}
             /\ payload.user.username = users[i].username
             /\ payload.user.role = users[i].role
             /\ \A d \in Days :
                  (now <= d /\ d < now + ExpiresInDays) =>
                    LET decoded == context(<< "Bearer ", payload.token >>, d).user
                    IN /\ decoded # Null
                       /\ decoded[1].username = users[i].username
                       /\ decoded[1].role = users[i].role

C4_Witness ==
  /\ call.op = "login"
  /\ call.args.username = "admin"
  /\ call.result.ok
  /\ call.result.data[1].user.role = "ADMIN"

\* C5: login with a username and password that do not both equal the fields
\* of one registry record fails with "Invalid credentials" and returns no
\* token.
C5_InvalidLoginFails ==
  (/\ call.op = "login"
   /\ ~\E i \in 1..Len(users) :
         /\ call.args.username = users[i].username
         /\ call.args.password = users[i].password)
  => /\ Failed("Invalid credentials")
     /\ call.result.data = Null

C5_Witness ==
  /\ call.op = "login"
  /\ call.args.username = "user"
  /\ call.args.password = "admin"
  /\ Failed("Invalid credentials")

\* C6: a request whose authorization header is absent, does not start with
\* "Bearer ", or carries a token that is malformed, not signed with the secret
\* over its payload, or expired, runs with no user in its context: me and todos
\* still succeed, addTodo, toggleTodo and deleteTodo fail with
\* "Not authenticated".
BadSignature(tok) ==
  tok.wellFormed /\ (tok.sig.key # JWT_SECRET \/ tok.sig.over # tok.payload)

Expired(tok) == tok.wellFormed /\ tok.payload.exp <= now

NoValidToken(auth) ==
  \/ auth = Null
  \/ auth[1] # "Bearer "
  \/ ~auth[2].wellFormed
  \/ BadSignature(auth[2])
  \/ Expired(auth[2])

C6_BadTokenIsAnonymous ==
  (call.op \in RequestOps /\ NoValidToken(call.auth)) =>
    /\ Anonymous
    /\ call.op = "me" => (call.result.ok /\ call.result.data[1] = Null)
    /\ call.op = "todos" => (call.result.ok /\ call.result.data[1] = todos)
    /\ call.op \in {"addTodo", "toggleTodo", "deleteTodo"} =>
         (Failed("Not authenticated") /\ todos = call.before)

C6_Witness ==
  /\ call.op = "addTodo"
  /\ call.auth # Null
  /\ call.auth[1] = "Bearer "
  /\ call.auth[2] \in HeldTokens
  /\ Expired(call.auth[2])
  /\ Failed("Not authenticated")

\* C7: whatever requests ran since it was issued, a token issued on day t to a
\* registry user verifies to that user's username and role on every day
\* before t + 7 and to no user on every day after t + 7, and a request that
\* presents it runs with exactly that context.
VerifiesTo(r, user) ==
  IF user = Null THEN FALSE
  ELSE user[1].username = r.user.username /\ user[1].role = r.user.role

C7_SevenDayValidity ==
  \A r \in held :
    /\ \A d \in Days :
         /\ (r.at <= d /\ d < r.at + ExpiresInDays) =>
              VerifiesTo(r, context(<< "Bearer ", r.token >>, d).user)
         /\ d > r.at + ExpiresInDays => context(<< "Bearer ", r.token >>, d).user = Null
    /\ (call.op \in RequestOps /\ call.auth = << "Bearer ", r.token >>) =>
         /\ now < r.at + ExpiresInDays => VerifiesTo(r, call.ctx.user)
         /\ now > r.at + ExpiresInDays => Anonymous

C7_Witness ==
  \E r \in held :
    /\ r.at = 0
    /\ now = 8
    /\ call.op = "me"
    /\ call.auth = << "Bearer ", r.token >>
    /\ call.result.data[1] = Null

\* C8: toggleTodo by a caller with a user in the context, on an id that is in
\* the array, succeeds and sets the done flag of that todo to the given value;
\* id, text, createdAt and createdBy of that todo, every other todo and the
\* order of the array are as before.
C8_ToggleSetsDoneOnly ==
  (call.op = "toggleTodo" /\ ~Anonymous /\ call.args.id \in Ids(call.before)) =>
    /\ call.result.ok
    /\ Len(todos) = Len(call.before)
    /\ \A i \in 1..Len(call.before) :
         todos[i] = IF call.before[i].id = call.args.id
                    THEN [call.before[i] EXCEPT !.done = call.args.done]
                    ELSE call.before[i]
    /\ call.result.data[1].id = call.args.id
    /\ call.result.data[1].done = call.args.done

C8_Witness ==
  /\ call.op = "toggleTodo"
  /\ call.result.ok
  /\ call.args.done = FALSE
  /\ call.ctx.user[1].role = "USER"
  /\ \E i \in 1..Len(call.before) :
       /\ call.before[i].id = call.args.id
       /\ call.before[i].done = TRUE
       /\ call.before[i].createdBy = "admin"
       /\ todos[i].done = FALSE

\* C9: toggleTodo with a user in the context, and deleteTodo with an ADMIN
\* user, on an id that is not in the array fail with "Not found" and leave the
\* array as it was.
C9_UnknownIdNotFound ==
  (/\ call.args.id \notin Ids(call.before)
   /\ \/ call.op = "toggleTodo" /\ ~Anonymous
      \/ call.op = "deleteTodo" /\ IsAdmin)
  => /\ Failed("Not found")
     /\ call.result.data = Null
     /\ todos = call.before

C9_Witness ==
  /\ call.op = "deleteTodo"
  /\ IsAdmin
  /\ call.args.id \notin Ids(call.before)
  /\ call.before # << >>
  /\ Failed("Not found")

C11_AddTodoAddsOneFreshTodo ==
  /\ (call.op = "addTodo" /\ ~Anonymous) =>
       /\ call.result.ok
       /\ Len(todos) = Len(call.before) + 1
       /\ LET todo == call.result.data[1]
          IN /\ todo.text = call.args.text
             /\ todo.done = FALSE
             /\ todo.createdBy = call.ctx.user[1].username
             /\ todo.id \notin Ids(call.before)
             /\ \E k \in 1..Len(todos) :
                  todos[k] = todo /\ Splice(todos, k) = call.before
  /\ \A i, j \in 1..Len(todos) : i # j => todos[i].id # todos[j].id

C11_Witness ==
  /\ call.op = "addTodo"
  /\ call.result.ok
  /\ call.before # << >>
  /\ Len(todos) = Len(call.before) + 1
  /\ todos[1].createdBy = "admin"
  /\ todos[1].id \notin Ids(call.before)

\* C12: toggleTodo without a user in the context returns exactly the
\* "Not authenticated" failure, and deleteTodo without a user or with a
\* non-ADMIN user returns exactly the "Not authenticated" or "Admin only"
\* failure, for an id that is in the array and for one that is not alike: a
\* call rejected at the gate never answers "Not found".
C12_GateBeforeNotFound ==
  /\ (call.op \in {"toggleTodo", "deleteTodo"} /\ Anonymous) =>
       call.result = Fail("Not authenticated")
  /\ (call.op = "deleteTodo" /\ ~Anonymous /\ ~IsAdmin) =>
       call.result = Fail("Admin only")

C12_Witness ==
  /\ call.op = "deleteTodo"
  /\ ~Anonymous
  /\ call.ctx.user[1].role = "USER"
  /\ call.before # << >>
  /\ call.args.id \notin Ids(call.before)
  /\ call.result = Fail("Admin only")

====
